---- MODULE Spec2Model ----
(***************************************************************************)
(* Model of projectbrainsaver.py: the GuardianOrchestrator turn            *)
(* (process_request), its keyword classifier (interpret_request), the      *)
(* handler dispatch (_execute_agent_action), the reply compiler            *)
(* (_compile_response) and the MemoryAgent interaction log.                *)
(*                                                                         *)
(* Texts are TLA+ strings; substring tests, lower-casing and joins are     *)
(* computed character by character, as the Python code computes them.      *)
(***************************************************************************)
EXTENDS Integers, Sequences, FiniteSets, TLC

(***************************************************************************)
(* Bounds of the model.                                                    *)
(***************************************************************************)
\* words per text in the classifier's input space
MaxWords == 3
\* requests handed to process_request in one run
MaxRequests == 2

(***************************************************************************)
(* Text primitives (Python str operations).                                *)
(***************************************************************************)
\* t in s
Contains(s, t) ==
    \E i \in 1..(Len(s) - Len(t) + 1) : SubSeq(s, i, i + Len(t) - 1) = t

UpperAlpha == "ABCDEFGHIJKLMNOPQRSTUVWXYZ"
LowerAlpha == "abcdefghijklmnopqrstuvwxyz"

UpperChars == {SubSeq(UpperAlpha, i, i) : i \in 1..Len(UpperAlpha)}

\* the lower-case letter of each upper-case letter
LowerOf ==
    [c \in UpperChars |->
        LET i == CHOOSE j \in 1..Len(UpperAlpha) : SubSeq(UpperAlpha, j, j) = c
        IN  SubSeq(LowerAlpha, i, i)]

LowerChar(c) == IF c \in UpperChars THEN LowerOf[c] ELSE c

\* s.lower(): every character lower-cased, computed half by half
RECURSIVE Lower(_)
Lower(s) ==
    IF Len(s) = 0 THEN ""
    ELSE IF Len(s) = 1 THEN LowerChar(s)
    ELSE LET half == Len(s) \div 2
         IN  Lower(SubSeq(s, 1, half)) \o Lower(SubSeq(s, half + 1, Len(s)))

\* sep.join(parts)
RECURSIVE Join(_, _)
Join(parts, sep) ==
    IF Len(parts) = 0 THEN ""
    ELSE IF Len(parts) = 1 THEN parts[1]
    ELSE parts[1] \o sep \o Join(Tail(parts), sep)

\* whitespace as str.split() and str.strip() see it
IsSpace(c) == c \in {" ", "\t", "\n"}

\* s.replace(old, new), old non-empty: leftmost non-overlapping occurrences
RECURSIVE Replace(_, _, _)
Replace(s, old, new) ==
    IF Len(s) < Len(old) THEN s
    ELSE IF SubSeq(s, 1, Len(old)) = old
    THEN new \o Replace(SubSeq(s, Len(old) + 1, Len(s)), old, new)
    ELSE SubSeq(s, 1, 1) \o Replace(SubSeq(s, 2, Len(s)), old, new)

RECURSIVE LStrip(_)
LStrip(s) ==
    IF Len(s) > 0 /\ IsSpace(SubSeq(s, 1, 1)) THEN LStrip(SubSeq(s, 2, Len(s))) ELSE s

RECURSIVE RStrip(_)
RStrip(s) ==
    IF Len(s) > 0 /\ IsSpace(SubSeq(s, Len(s), Len(s)))
    THEN RStrip(SubSeq(s, 1, Len(s) - 1)) ELSE s

\* s.strip()
Strip(s) == RStrip(LStrip(s))

\* s.strip(chars)
RECURSIVE StripChars(_, _)
StripChars(s, chars) ==
    IF Len(s) > 0 /\ Contains(chars, SubSeq(s, 1, 1))
    THEN StripChars(SubSeq(s, 2, Len(s)), chars)
    ELSE IF Len(s) > 0 /\ Contains(chars, SubSeq(s, Len(s), Len(s)))
    THEN StripChars(SubSeq(s, 1, Len(s) - 1), chars)
    ELSE s

\* s.split(): the maximal runs of non-whitespace, in order
RECURSIVE SplitAcc(_, _)
SplitAcc(s, cur) ==
    IF Len(s) = 0 THEN (IF Len(cur) = 0 THEN <<>> ELSE <<cur>>)
    ELSE LET c == SubSeq(s, 1, 1)
             rest == SubSeq(s, 2, Len(s))
         IN  IF IsSpace(c)
             THEN (IF Len(cur) = 0 THEN SplitAcc(rest, "")
                   ELSE <<cur>> \o SplitAcc(rest, ""))
             ELSE SplitAcc(rest, cur \o c)

Split(s) == SplitAcc(s, "")

\* s.startswith(prefix)
StartsWith(s, prefix) ==
    Len(s) >= Len(prefix) /\ SubSeq(s, 1, Len(prefix)) = prefix

\* any(word in text for word in words)
AnyIn(words, text) == \E i \in 1..Len(words) : Contains(text, words[i])

(***************************************************************************)
(* interpret_request: the keyword cascade and the "organize my" override.  *)
(***************************************************************************)
FileWords       == <<"file", "folder", "organize", "find", "duplicate">>
ResearchWords   == <<"search", "research", "find information", "look up">>
DomainWords     == <<"domain", "dns", "website", "server">>
PhoneWords      == <<"phone", "photos", "contacts", "mobile">>
AutomationWords == <<"automate", "backup", "schedule", "desktop", "tool">>
MemoryWords     == <<"remember", "recall", "previous", "last time">>

\* a Python dict with no key, and one with the single key "action"
NoParams == [k \in {} |-> ""]
ActionParam(a) == [k \in {"action"} |-> a]

\* the dict interpret_request starts from
UnknownInterpretation ==
    [primary_intent |-> "unknown", agents_needed |-> <<>>,
     parameters |-> NoParams, confidence |-> "0.0"]

Matched(intent, agent, params, conf) ==
    [primary_intent |-> intent, agents_needed |-> <<agent>>,
     parameters |-> params, confidence |-> conf]

\* "duplicate" looked for before "find" and "organize"
FileParamsDuplicateFirst(request_lower) ==
    IF Contains(request_lower, "duplicate") THEN ActionParam("remove_duplicates")
    ELSE IF Contains(request_lower, "find") THEN ActionParam("find")
    ELSE IF Contains(request_lower, "organize") THEN ActionParam("organize")
    ELSE NoParams

FileParams(request_lower) ==
    IF Contains(request_lower, "find") THEN ActionParam("find")
    ELSE IF Contains(request_lower, "organize") THEN ActionParam("organize")
    ELSE IF Contains(request_lower, "duplicate") THEN ActionParam("remove_duplicates")
    ELSE NoParams

DomainParams(request_lower) ==
    IF Contains(request_lower, "check") \/ Contains(request_lower, "status")
    THEN ActionParam("check_status")
    ELSE IF Contains(request_lower, "fix") THEN ActionParam("fix_dns")
    ELSE NoParams

PhoneParams(request_lower) ==
    IF Contains(request_lower, "photo") THEN ActionParam("sort_photos")
    ELSE IF Contains(request_lower, "contact") THEN ActionParam("clean_contacts")
    ELSE NoParams

AutomationParams(request_lower) ==
    IF Contains(request_lower, "backup") THEN ActionParam("backup")
    ELSE IF Contains(request_lower, "desktop") THEN ActionParam("organize_desktop")
    ELSE IF Contains(request_lower, "schedule") THEN ActionParam("schedule_task")
    ELSE IF Contains(request_lower, "tool") THEN ActionParam("create_tool")
    ELSE NoParams

\* Cascade with its last elif written as a bare else
CascadeElse(request_lower) ==
    IF AnyIn(FileWords, request_lower)
    THEN Matched("file_management", "file", FileParams(request_lower), "0.8")
    ELSE IF AnyIn(ResearchWords, request_lower)
    THEN Matched("research", "research", NoParams, "0.8")
    ELSE IF AnyIn(DomainWords, request_lower)
    THEN Matched("domain_management", "domain", DomainParams(request_lower), "0.8")
    ELSE IF AnyIn(PhoneWords, request_lower)
    THEN Matched("phone_management", "phone", PhoneParams(request_lower), "0.8")
    ELSE IF AnyIn(AutomationWords, request_lower)
    THEN Matched("automation", "automation", AutomationParams(request_lower), "0.8")
    ELSE Matched("memory_recall", "memory", NoParams, "0.7")

\* Cascade with the research test moved in front of the file test
CascadeResearchFirst(request_lower) ==
    IF AnyIn(ResearchWords, request_lower)
    THEN Matched("research", "research", NoParams, "0.8")
    ELSE IF AnyIn(FileWords, request_lower)
    THEN Matched("file_management", "file", FileParams(request_lower), "0.8")
    ELSE IF AnyIn(DomainWords, request_lower)
    THEN Matched("domain_management", "domain", DomainParams(request_lower), "0.8")
    ELSE IF AnyIn(PhoneWords, request_lower)
    THEN Matched("phone_management", "phone", PhoneParams(request_lower), "0.8")
    ELSE IF AnyIn(AutomationWords, request_lower)
    THEN Matched("automation", "automation", AutomationParams(request_lower), "0.8")
    ELSE IF AnyIn(MemoryWords, request_lower)
    THEN Matched("memory_recall", "memory", NoParams, "0.7")
    ELSE UnknownInterpretation

\* the if/elif chain over the six categories
Cascade(request_lower) ==
    IF AnyIn(FileWords, request_lower)
    THEN Matched("file_management", "file", FileParams(request_lower), "0.8")
    ELSE IF AnyIn(ResearchWords, request_lower)
    THEN Matched("research", "research", NoParams, "0.8")
    ELSE IF AnyIn(DomainWords, request_lower)
    THEN Matched("domain_management", "domain", DomainParams(request_lower), "0.8")
    ELSE IF AnyIn(PhoneWords, request_lower)
    THEN Matched("phone_management", "phone", PhoneParams(request_lower), "0.8")
    ELSE IF AnyIn(AutomationWords, request_lower)
    THEN Matched("automation", "automation", AutomationParams(request_lower), "0.8")
    ELSE IF AnyIn(MemoryWords, request_lower)
    THEN Matched("memory_recall", "memory", NoParams, "0.7")
    ELSE UnknownInterpretation

\* Override with its elif written as a second if: the computer/files test
\* runs after the phone test has matched
OverrideTwoIfs(request_lower, interpretation) ==
    IF Contains(request_lower, "organize my")
    THEN LET after_phone ==
                 IF Contains(request_lower, "phone")
                 THEN [interpretation EXCEPT !.agents_needed = <<"phone", "memory">>]
                 ELSE interpretation
         IN  IF Contains(request_lower, "computer") \/ Contains(request_lower, "files")
             THEN [after_phone EXCEPT !.agents_needed = <<"file", "automation", "memory">>]
             ELSE after_phone
    ELSE interpretation

\* Override extending the cascade's list instead of replacing it
OverrideUnion(request_lower, interpretation) ==
    IF Contains(request_lower, "organize my")
    THEN IF Contains(request_lower, "phone")
         THEN [interpretation EXCEPT !.agents_needed = @ \o <<"phone", "memory">>]
         ELSE IF Contains(request_lower, "computer") \/ Contains(request_lower, "files")
         THEN [interpretation EXCEPT !.agents_needed = @ \o <<"automation", "memory">>]
         ELSE interpretation
    ELSE interpretation

\* the "Multi-agent requests" block that follows the chain
Override(request_lower, interpretation) ==
    IF Contains(request_lower, "organize my")
    THEN IF Contains(request_lower, "phone")
         THEN [interpretation EXCEPT !.agents_needed = <<"phone", "memory">>]
         ELSE IF Contains(request_lower, "computer") \/ Contains(request_lower, "files")
         THEN [interpretation EXCEPT !.agents_needed = <<"file", "automation", "memory">>]
         ELSE interpretation
    ELSE interpretation

interpret_request(user_input) ==
    LET request_lower == Lower(user_input)
    IN  Override(request_lower, Cascade(request_lower))

(***************************************************************************)
(* MemoryAgent: the interaction log (table interactions of memory.db).     *)
(***************************************************************************)
\* SQLite's  text LIKE pattern : % is any run of characters, _ is any one
\* character, letters compare without case
RECURSIVE Like(_, _)
Like(text, pattern) ==
    IF Len(pattern) = 0 THEN Len(text) = 0
    ELSE LET p == SubSeq(pattern, 1, 1)
             rest == SubSeq(pattern, 2, Len(pattern))
         IN  IF p = "%"
             THEN \E k \in 0..Len(text) : Like(SubSeq(text, k + 1, Len(text)), rest)
             ELSE /\ Len(text) > 0
                  /\ (p = "_" \/ LowerChar(p) = LowerChar(SubSeq(text, 1, 1)))
                  /\ Like(SubSeq(text, 2, Len(text)), rest)

\* one condition of the WHERE clause, for one search term
TermCondition(row, term) ==
    \/ Like(Lower(row.user_input), "%" \o term \o "%")
    \/ Like(Lower(row.agent_output), "%" \o term \o "%")

\* the rows the WHERE clause of retrieve_relevant keeps (all rows when the
\* query has no term), as the set of their positions in the log
MatchingRows(query, rows) ==
    LET search_terms == Split(Lower(query))
    IN  {i \in 1..Len(rows) :
            \A t \in 1..Len(search_terms) : TermCondition(rows[i], search_terms[t])}

\* len(retrieve_relevant(query, limit)) : LIMIT keeps at most limit rows
RetrievedCount(query, limit, rows) ==
    LET n == Cardinality(MatchingRows(query, rows))
    IN  IF n < limit THEN n ELSE limit

\* datetime.now().isoformat() for a reading of whole seconds (the fraction
\* is left out when the microsecond is 0), within one minute
isoformat(t) ==
    "2025-01-01T12:00:" \o (IF t < 10 THEN "0" ELSE "") \o ToString(t)

\* the characters of a timestamp, in code-point order
TimestampChars == "-.0123456789:T"

CodePoint(c) ==
    CHOOSE i \in 1..Len(TimestampChars) : SubSeq(TimestampChars, i, i) = c

\* a < b for two TEXT values under SQLite's BINARY collation
RECURSIVE TextLess(_, _)
TextLess(a, b) ==
    IF Len(b) = 0 THEN FALSE
    ELSE IF Len(a) = 0 THEN TRUE
    ELSE IF SubSeq(a, 1, 1) = SubSeq(b, 1, 1)
    THEN TextLess(SubSeq(a, 2, Len(a)), SubSeq(b, 2, Len(b)))
    ELSE CodePoint(SubSeq(a, 1, 1)) < CodePoint(SubSeq(b, 1, 1))

\* ORDER BY timestamp DESC over the rows at positions keep: every order of
\* them in which no row comes before one of a greater timestamp.  The
\* statement names no second sort key, so rows of equal timestamp may come
\* in either order.
OrderByTimestampDesc(rows, keep) ==
    {o \in [1..Cardinality(keep) -> keep] :
        /\ \A i, j \in DOMAIN o : i # j => o[i] # o[j]
        /\ \A i, j \in DOMAIN o :
              i < j => ~TextLess(rows[o[i]].timestamp, rows[o[j]].timestamp)}

\* the dict built from one fetched row
RowDict(row) ==
    [timestamp |-> row.timestamp, user_input |-> row.user_input,
     agent_output |-> row.agent_output, context_tags |-> row.context_tags]

\* retrieve_relevant(query, limit): the lists it can return
retrieve_relevant(query, limit, rows) ==
    {[i \in 1..(IF Len(o) < limit THEN Len(o) ELSE limit) |-> RowDict(rows[o[i]])] :
        o \in OrderByTimestampDesc(rows, MatchingRows(query, rows))}

\* the log after save_interaction: one row appended, with the next row id
save_interaction(rows, timestamp, user_input, agent_output, session_id, context_tags) ==
    Append(rows, [id |-> Len(rows) + 1,
                  timestamp |-> timestamp,
                  user_input |-> user_input,
                  agent_output |-> agent_output,
                  session_id |-> session_id,
                  context_tags |-> context_tags])

(***************************************************************************)
(* AgentResponse and the collaborating agents.  Each agent method is the   *)
(* set of AgentResponses it can return; what depends on the machine (the   *)
(* files found, the DNS answer) is that of a working directory that holds  *)
(* only the program's own memory.db and projectbrainsaver.log, without     *)
(* network, and the failure an agent catches is one fault text.            *)
(* A data or actions_taken of None is the empty sequence: the code only    *)
(* ever tests them for truth.                                              *)
(***************************************************************************)
\* str(e) of the exception an operation of the machine fails with
FaultText == "database is locked"

\* str(e) of sqlite3.OperationalError when memory.db has no tables
NoTableText == "no such table: interactions"

AgentResponse(success, message, data, actions_taken) ==
    [success |-> success, message |-> message,
     data |-> data, actions_taken |-> actions_taken]

\* AgentResponse(success=False, message=...)
Failure(message) == AgentResponse(FALSE, message, <<>>, <<>>)

\* a data entry whose value is an int or a str, and one whose value is a
\* list or a dict
Scalar(key, value) == [key |-> key, scalar |-> TRUE, value |-> value]
Bulk(key) == [key |-> key, scalar |-> FALSE, value |-> ""]

get_information(query) ==
    {AgentResponse(TRUE, "Found information about: " \o query,
                   <<Bulk("results")>>,
                   <<"Searched for '" \o query \o "'", "Analyzed results">>)}

find_file(name_or_keywords) ==
    {AgentResponse(TRUE, "Found 0 files matching '" \o name_or_keywords \o "'",
                   <<Bulk("files")>>,
                   <<"Searched in .", "Found 0 matches">>),
     Failure("Error searching for files: " \o FaultText)}

\* organize_folder moves every file of path into <extension>_files/ unless
\* a file of that name is there already.  With path "." that is the working
\* directory, where memory.db lives: db_moved tells whether memory.db was
\* moved to db_files/ (it is not when db_files/memory.db exists, as after an
\* earlier move; a failure can come before or after the move).
organize_folder(path, criteria, db_ready) ==
    {[response |-> AgentResponse(TRUE, "Organized 0 files in " \o path,
                      <<Scalar("organized_count", "0"), Scalar("criteria", criteria)>>,
                      <<>>),
      db_moved |-> FALSE],
     [response |-> Failure("Error organizing folder: " \o FaultText),
      db_moved |-> FALSE]}
    \cup
    (IF db_ready
     THEN {[response |-> AgentResponse(TRUE, "Organized 2 files in " \o path,
                            <<Scalar("organized_count", "2"), Scalar("criteria", criteria)>>,
                            <<"Moved memory.db to db_files/",
                              "Moved projectbrainsaver.log to log_files/">>),
            db_moved |-> TRUE],
           [response |-> Failure("Error organizing folder: " \o FaultText),
            db_moved |-> TRUE]}
     ELSE {})

remove_duplicates(path) ==
    {AgentResponse(TRUE, "Found 0 duplicate files",
                   <<Bulk("duplicates")>>,
                   <<"Scanned 0 files", "Found 0 duplicates">>),
     Failure("Error finding duplicates: " \o FaultText)}

run_backup(source_path, backup_path) ==
    {AgentResponse(TRUE, "Backup completed: " \o source_path \o " -> " \o backup_path,
                   <<>>,
                   <<"Started backup from " \o source_path,
                     "Creating backup directory: " \o backup_path,
                     "Copying files...",
                     "Backup completed successfully">>)}

organize_desktop ==
    {AgentResponse(TRUE, "Desktop organized - 0 files categorized",
                   <<Scalar("organized_count", "0")>>, <<>>),
     Failure("Desktop path not found: ~/Desktop"),
     Failure("Desktop organization failed: " \o FaultText)}

\* task_id is len(self.scheduled_tasks) + 1
schedule_task(task, schedule_time, n_scheduled) ==
    {AgentResponse(TRUE, "Task scheduled: " \o task \o " at " \o schedule_time,
                   <<Scalar("task_id", ToString(n_scheduled + 1)), Bulk("task")>>,
                   <<"Added task to schedule with ID " \o ToString(n_scheduled + 1)>>)}

create_tool(tool_description) ==
    LET d == Lower(tool_description)
        suggested_tool ==
            IF Contains(d, "file organizer")
            THEN "Script to automatically organize files by type and date"
            ELSE IF Contains(d, "backup")
            THEN "Automated backup script with scheduling"
            ELSE IF Contains(d, "duplicate finder")
            THEN "Tool to find and remove duplicate files"
            ELSE IF Contains(d, "system monitor")
            THEN "Monitor system resources and send alerts"
            ELSE "Custom tool for: " \o tool_description
    IN  {AgentResponse(TRUE, "Tool suggestion: " \o suggested_tool,
                       <<Scalar("tool_description", tool_description),
                         Scalar("suggestion", suggested_tool)>>,
                       <<"Analyzed request: " \o tool_description,
                         "Generated tool suggestion">>)}

sort_photos ==
    {AgentResponse(TRUE, "Photos organized - 0 photos sorted into albums",
                   <<Scalar("sorted_count", "0"), Scalar("albums_created", "5")>>,
                   <<>>),
     Failure("Photo sorting failed: " \o FaultText)}

clean_contacts ==
    {AgentResponse(TRUE,
                   "Contacts cleaned - 1 duplicates found, 3 contacts remaining",
                   <<Scalar("original_count", "4"), Scalar("cleaned_count", "3"),
                     Scalar("duplicates_removed", "1")>>,
                   <<"Found duplicate: john doe", "Missing phone for: Bob Johnson">>),
     Failure("Contact cleaning failed: " \o FaultText)}

check_domain_status(domain_name) ==
    {AgentResponse(TRUE, "Domain " \o domain_name \o " status: offline",
                   <<Scalar("domain", domain_name), Bulk("checks")>>,
                   <<"Starting domain check for " \o domain_name,
                     "DNS resolution failed">>),
     Failure("Domain check failed: " \o FaultText)}

fix_dns(domain_name, record_type, value) ==
    {AgentResponse(TRUE,
                   "DNS record updated: " \o domain_name \o " " \o record_type
                       \o " -> " \o value,
                   <<Scalar("domain", domain_name), Scalar("record_type", record_type),
                     Scalar("new_value", value),
                     Scalar("propagation_time", "up to 24 hours")>>,
                   <<"Connecting to DNS provider for " \o domain_name,
                     "Updating " \o record_type \o " record to " \o value,
                     "DNS propagation initiated (may take up to 24 hours)",
                     "DNS fix completed successfully">>)}

(***************************************************************************)
(* GuardianOrchestrator._execute_agent_action                              *)
(***************************************************************************)
\* Python's None, what a function returns when it falls off its end
None == [none |-> TRUE]

\* parameters.get(key, default)
Get(parameters, key, default) ==
    IF key \in DOMAIN parameters THEN parameters[key] ELSE default

\* the domain name the "domain" branch takes from the input: the first word
\* that holds a dot and does not start with one, stripped of ".,!?"
RECURSIVE FirstDomainWord(_)
FirstDomainWord(words) ==
    IF Len(words) = 0 THEN ""
    ELSE IF Contains(Head(words), ".") /\ ~StartsWith(Head(words), ".")
    THEN StripChars(Head(words), ".,!?")
    ELSE FirstDomainWord(Tail(words))

ExtractDomain(user_input) ==
    LET domain == FirstDomainWord(Split(user_input))
    IN  IF Len(domain) = 0 THEN "example.com" ELSE domain

\* what a branch of the try block can come to: the agent method it calls,
\* the value it returns, or the text of the exception raised when error is
\* not empty, and whether memory.db was moved away meanwhile
Called(method, responses) ==
    {[method |-> method, response |-> r, error |-> "", db_moved |-> FALSE] :
        r \in responses}

\* the body of the try block: the agent method called ("none" when no branch
\* calls one) and what the branch returns
TryBody(agent_name, parameters, user_input, rows, n_scheduled, db_ready) ==
    IF agent_name = "research"
    THEN Called("get_information",
                get_information(Strip(Replace(Replace(user_input, "search for", ""),
                                              "research", ""))))
    ELSE IF agent_name = "file"
    THEN LET action == Get(parameters, "action", "find")
         IN  IF action = "find"
             THEN Called("find_file",
                         find_file(Strip(Replace(Replace(user_input, "find", ""),
                                                 "file", ""))))
             ELSE IF action = "organize"
             THEN {[method |-> "organize_folder", response |-> o.response,
                    error |-> "", db_moved |-> o.db_moved] :
                      o \in organize_folder(".", "type", db_ready)}
             ELSE IF action = "remove_duplicates"
             THEN Called("remove_duplicates", remove_duplicates("."))
             ELSE Called("none", {None})
    ELSE IF agent_name = "automation"
    THEN LET action == Get(parameters, "action", "organize_desktop")
         IN  IF action = "backup"
             THEN Called("run_backup", run_backup("./important_files", "./backup"))
             ELSE IF action = "organize_desktop"
             THEN Called("organize_desktop", organize_desktop)
             ELSE IF action = "schedule_task"
             THEN Called("schedule_task",
                         schedule_task(Strip(Replace(user_input, "schedule", "")),
                                       "tomorrow 9:00 AM", n_scheduled))
             ELSE IF action = "create_tool"
             THEN Called("create_tool", create_tool(user_input))
             ELSE Called("none", {None})
    ELSE IF agent_name = "phone"
    THEN LET action == Get(parameters, "action", "sort_photos")
         IN  IF action = "sort_photos"
             THEN Called("sort_photos", sort_photos)
             ELSE IF action = "clean_contacts"
             THEN Called("clean_contacts", clean_contacts)
             ELSE Called("none", {None})
    ELSE IF agent_name = "domain"
    THEN LET action == Get(parameters, "action", "check_status")
             domain == ExtractDomain(user_input)
         IN  IF action = "check_status"
             THEN Called("check_domain_status", check_domain_status(domain))
             ELSE IF action = "fix_dns"
             THEN Called("fix_dns", fix_dns(domain, "A", "192.168.1.1"))
             ELSE Called("none", {None})
    ELSE IF agent_name = "memory"
    THEN LET query == Strip(Replace(Replace(user_input, "remember", ""), "recall", ""))
             n == RetrievedCount(query, 5, rows)
         IN  IF db_ready
             THEN Called("retrieve_relevant",
                         {AgentResponse(TRUE,
                                        "Found " \o ToString(n) \o " relevant past interactions",
                                        <<Bulk("past_interactions")>>,
                                        <<"Searched memory for: " \o query>>)})
             ELSE {[method |-> "retrieve_relevant", response |-> None,
                    error |-> NoTableText, db_moved |-> FALSE]}
    ELSE Called("none", {Failure("Unknown agent: " \o agent_name)})

\* the except clause: the failed AgentResponse built from the exception
ExceptClause(agent_name, error) == Failure("Error in " \o agent_name \o ": " \o error)

\* what one call of _execute_agent_action can come to: a branch's return
\* value, or the except clause's response when the branch raises, be it
\* for the missing table or because the agent method it calls fails
execute_agent_action(agent_name, parameters, user_input, rows, n_scheduled, db_ready) ==
    LET body == TryBody(agent_name, parameters, user_input, rows, n_scheduled, db_ready)
    IN  {[method |-> b.method, raised |-> Len(b.error) > 0, db_moved |-> b.db_moved,
          response |-> IF Len(b.error) > 0
                       THEN ExceptClause(agent_name, b.error) ELSE b.response] :
            b \in body}
        \cup
        {[method |-> b.method, raised |-> TRUE, db_moved |-> FALSE,
          response |-> ExceptClause(agent_name, FaultText)] :
            b \in {c \in body : c.method # "none"}}

(***************************************************************************)
(* GuardianOrchestrator._compile_response                                  *)
(* The check mark, the cross and the bullet of the source are written      *)
(* "[ok]", "[failed]" and "*".                                             *)
(***************************************************************************)
\* seq[:n]
Prefix(seq, n) == SubSeq(seq, 1, IF Len(seq) < n THEN Len(seq) ELSE n)

\* the display cap on actions_taken
KeyActions == 3

DataLines(data) ==
    LET IsShown(e) == e.scalar /\ e.key # "results"
        shown == SelectSeq(data, IsShown)
    IN  [i \in 1..Len(shown) |-> "  - " \o shown[i].key \o ": " \o shown[i].value]

\* every action shown
ActionLinesUncapped(actions_taken) ==
    [i \in 1..Len(actions_taken) |-> "  * " \o actions_taken[i]]

ActionLines(actions_taken) ==
    LET key_actions == Prefix(actions_taken, KeyActions)
    IN  [i \in 1..Len(key_actions) |-> "  * " \o key_actions[i]]

\* the lines one successful response adds
SuccessBlock(response) ==
    <<"[ok] " \o response.message>>
        \o DataLines(response.data) \o ActionLines(response.actions_taken)

RECURSIVE SuccessBlocks(_)
SuccessBlocks(responses) ==
    IF Len(responses) = 0 THEN <<>>
    ELSE SuccessBlock(Head(responses)) \o SuccessBlocks(Tail(responses))

TipLines(primary_intent) ==
    IF primary_intent = "file_management"
    THEN <<"\nTip: I can also help organize files by date, find duplicates, or backup important documents.">>
    ELSE IF primary_intent = "domain_management"
    THEN <<"\nTip: I can monitor your domains regularly and alert you to any issues.">>
    ELSE IF primary_intent = "phone_management"
    THEN <<"\nTip: I can also help with backing up your phone data to the cloud.">>
    ELSE <<>>

\* the failures put before the successes
response_parts_failures_first(interpretation, agent_responses, context_summary) ==
    LET IsSuccess(r) == r.success
        IsFailure(r) == ~r.success
        successful_responses == SelectSeq(agent_responses, IsSuccess)
        failed_responses == SelectSeq(agent_responses, IsFailure)
    IN  (IF Len(context_summary) > 0 THEN <<context_summary>> ELSE <<>>)
        \o (IF Len(failed_responses) > 0
            THEN <<"\nSome issues encountered:">>
                 \o [i \in 1..Len(failed_responses) |->
                        "[failed] " \o failed_responses[i].message]
            ELSE <<>>)
        \o (IF Len(successful_responses) > 0
            THEN <<"Here's what I accomplished:">> \o SuccessBlocks(successful_responses)
            ELSE <<>>)
        \o TipLines(interpretation.primary_intent)

\* response_parts, before the join
response_parts(interpretation, agent_responses, context_summary) ==
    LET IsSuccess(r) == r.success
        IsFailure(r) == ~r.success
        successful_responses == SelectSeq(agent_responses, IsSuccess)
        failed_responses == SelectSeq(agent_responses, IsFailure)
    IN  (IF Len(context_summary) > 0 THEN <<context_summary>> ELSE <<>>)
        \o (IF Len(successful_responses) > 0
            THEN <<"Here's what I accomplished:">> \o SuccessBlocks(successful_responses)
            ELSE <<>>)
        \o (IF Len(failed_responses) > 0
            THEN <<"\nSome issues encountered:">>
                 \o [i \in 1..Len(failed_responses) |->
                        "[failed] " \o failed_responses[i].message]
            ELSE <<>>)
        \o TipLines(interpretation.primary_intent)

compile_response(interpretation, agent_responses, context_summary) ==
    Join(response_parts(interpretation, agent_responses, context_summary), "\n")

(***************************************************************************)
(* MemoryAgent: table user_preferences (key is its PRIMARY KEY).           *)
(***************************************************************************)
\* a str behind an Optional[str]
Str(value) == [value |-> value]

\* INSERT without OR REPLACE, on a table without the key constraint
InsertPreference(table, key, value, updated_at) ==
    table \cup {[key |-> key, value |-> value, updated_at |-> updated_at]}

\* INSERT OR REPLACE: the row that holds the key is deleted, the new row is
\* inserted
set_preference(table, key, value, updated_at) ==
    {r \in table : r.key # key}
        \cup {[key |-> key, value |-> value, updated_at |-> updated_at]}

\* get_preference: fetchone() over the rows WHERE key = ?, None without one
get_preference(table, key) ==
    LET found == {r \in table : r.key = key}
    IN  IF found = {} THEN {None} ELSE {Str(r.value) : r \in found}

\* no MemoryAgent call made yet
NoArgs == [op |-> "none"]

(***************************************************************************)
(* State.                                                                  *)
(***************************************************************************)
VARIABLES
    pc,                \* where the current call stands
    user_input,        \* the text of the current call
    context_summary,   \* process_request's note on past interactions
    interpretation,    \* what interpret_request returned
    responses,         \* process_request's list of agent responses
    invoked,           \* the _execute_agent_action calls of this turn, in order
    final_response,    \* the compiled reply of this turn
    returned,          \* how the call ended: a returned text, or an exception
    interactions,      \* the rows of table interactions, in insertion order
    db_ready,          \* memory.db, in the working directory, has its tables
    scheduled_tasks,   \* len(AutomationAgent.scheduled_tasks)
    requests,          \* process_request calls made so far
    now,               \* the reading datetime.now() gives, in seconds of the minute
    user_preferences,  \* the rows of table user_preferences
    set_calls,         \* the set_preference calls made so far, in order
    args,              \* the arguments of the current MemoryAgent call
    result             \* what the current MemoryAgent call returned

vars == <<pc, user_input, context_summary, interpretation, responses, invoked,
          final_response, returned, interactions, db_ready, scheduled_tasks,
          requests, now, user_preferences, set_calls, args, result>>

\* what a process_request turn never touches
store_call == <<set_calls, args, result>>

\* GuardianOrchestrator.session_id, fixed when the orchestrator is built
session_id == "20250101_120000"

ClarifyMessage ==
    "I'm not sure what you'd like me to help with. Could you please clarify your request?"

Pending == [status |-> "pending", text |-> ""]
Returned(text) == [status |-> "returned", text |-> text]
Raised(text) == [status |-> "raised", text |-> text]

\* the texts handed to process_request
Requests ==
    {"", "hello there", "Find report.txt", "organize my files",
     "organize my phone", "organize my desk", "research dns",
     "fix dns example.com.", "sort photos", "schedule a call",
     "backup my tool", "recall hello"}

\* the words (and the phrase "organize my") that make up the texts handed to
\* interpret_request alone
Vocabulary ==
    {"find", "organize my", "Organize My", "files", "duplicate",
     "research", "information",
     "dns", "check",
     "phone", "photos",
     "backup",
     "recall",
     "computer", "hello"}

Texts ==
    {Join(ws, " ") : ws \in UNION {[1..n -> Vocabulary] : n \in 0..MaxWords}}

TurnInit ==
    /\ context_summary = ""
    /\ interpretation = UnknownInterpretation
    /\ responses = <<>>
    /\ invoked = <<>>
    /\ final_response = ""
    /\ returned = Pending
    /\ interactions = <<>>
    /\ db_ready = TRUE
    /\ scheduled_tasks = 0
    /\ requests = 0
    /\ now = 0
    /\ user_preferences = {}
    /\ set_calls = <<>>
    /\ args = NoArgs
    /\ result = None

\* a freshly built orchestrator on an empty memory.db, no call made yet
Init ==
    /\ pc = "Idle"
    /\ user_input = ""
    /\ TurnInit

(***************************************************************************)
(* process_request, step by step.                                          *)
(***************************************************************************)
\* the look-up made as if the request at hand were already in the log
ReceiveCountingOwn(text) ==
    /\ pc \in {"Idle", "Persisted", "Raised"}
    /\ requests < MaxRequests
    /\ requests' = requests + 1
    /\ user_input' = text
    /\ interpretation' = UnknownInterpretation
    /\ responses' = <<>>
    /\ invoked' = <<>>
    /\ final_response' = ""
    /\ IF db_ready
       THEN /\ LET n == RetrievedCount(text, 3,
                                       save_interaction(interactions, isoformat(now + 1),
                                                        text, "", session_id, ""))
               IN  context_summary' =
                       IF n > 0
                       THEN "Found " \o ToString(n) \o " relevant past interactions. "
                       ELSE ""
            /\ returned' = Pending
            /\ pc' = "Received"
       ELSE /\ context_summary' = ""
            /\ returned' = Raised("OperationalError: " \o NoTableText)
            /\ pc' = "Raised"
    /\ now' = now + 1
    /\ UNCHANGED <<interactions, db_ready, scheduled_tasks, user_preferences,
                   store_call>>

\* entry: the look-up of past context; without the table the SELECT raises
\* sqlite3.OperationalError, which nothing in process_request catches
Receive(text) ==
    /\ pc \in {"Idle", "Persisted", "Raised"}
    /\ requests < MaxRequests
    /\ requests' = requests + 1
    /\ user_input' = text
    /\ interpretation' = UnknownInterpretation
    /\ responses' = <<>>
    /\ invoked' = <<>>
    /\ final_response' = ""
    /\ IF db_ready
       THEN /\ LET n == RetrievedCount(text, 3, interactions)
               IN  context_summary' =
                       IF n > 0
                       THEN "Found " \o ToString(n) \o " relevant past interactions. "
                       ELSE ""
            /\ returned' = Pending
            /\ pc' = "Received"
       ELSE /\ context_summary' = ""
            /\ returned' = Raised("OperationalError: " \o NoTableText)
            /\ pc' = "Raised"
    /\ now' = now + 1
    /\ UNCHANGED <<interactions, db_ready, scheduled_tasks, user_preferences,
                   store_call>>

\* a turn that found past context taken for a memory retrieval
ClassifyByContext ==
    /\ pc = "Received"
    /\ interpretation' = IF context_summary # ""
                         THEN Matched("memory_retrieval", "memory", NoParams, "0.9")
                         ELSE interpret_request(user_input)
    /\ pc' = "Classified"
    /\ UNCHANGED <<user_input, context_summary, responses, invoked, final_response,
                   returned, interactions, db_ready, scheduled_tasks, requests,
                   now, user_preferences, store_call>>

Classify ==
    /\ pc = "Received"
    /\ interpretation' = interpret_request(user_input)
    /\ pc' = "Classified"
    /\ UNCHANGED <<user_input, context_summary, responses, invoked, final_response,
                   returned, interactions, db_ready, scheduled_tasks, requests,
                   now, user_preferences, store_call>>

\* self.memory.save_interaction(...) followed by return response: without
\* the table the INSERT raises out of process_request
SaveAndReturn(response, context_tags) ==
    IF db_ready
    THEN /\ interactions' = save_interaction(interactions, isoformat(now),
                                             user_input, response,
                                             session_id, context_tags)
         /\ returned' = Returned(response)
         /\ pc' = "Persisted"
    ELSE /\ interactions' = interactions
         /\ returned' = Raised("OperationalError: " \o NoTableText)
         /\ pc' = "Raised"

\* the unknown branch returning its clarification without saving it
ShortCircuitNoSave ==
    /\ pc = "Classified"
    /\ interpretation.primary_intent = "unknown"
    /\ final_response' = ClarifyMessage
    /\ returned' = Returned(ClarifyMessage)
    /\ pc' = "Persisted"
    /\ UNCHANGED <<user_input, context_summary, interpretation, responses, invoked,
                   interactions, db_ready, scheduled_tasks, requests,
                   now, user_preferences, store_call>>

\* primary_intent == "unknown": the clarification is saved and returned
ShortCircuit ==
    /\ pc = "Classified"
    /\ interpretation.primary_intent = "unknown"
    /\ final_response' = ClarifyMessage
    /\ SaveAndReturn(ClarifyMessage, "unknown_intent")
    /\ UNCHANGED <<user_input, context_summary, interpretation, responses, invoked,
                   db_ready, scheduled_tasks, requests,
                   now, user_preferences, store_call>>

\* one pass of the loop over agents_needed; a response of None makes
\* agent_response.actions_taken raise AttributeError out of process_request
Dispatch ==
    /\ pc \in {"Classified", "Dispatching"}
    /\ interpretation.primary_intent # "unknown"
    /\ Len(responses) < Len(interpretation.agents_needed)
    /\ LET agent_name == interpretation.agents_needed[Len(responses) + 1]
       IN  \E o \in execute_agent_action(agent_name, interpretation.parameters,
                                         user_input, interactions, scheduled_tasks,
                                         db_ready) :
             /\ responses' = Append(responses, o.response)
             /\ invoked' = Append(invoked,
                                  [agent_name |-> agent_name,
                                   parameters |-> interpretation.parameters,
                                   method |-> o.method,
                                   raised |-> o.raised])
             /\ scheduled_tasks' =
                    IF o.method = "schedule_task" /\ ~o.raised
                    THEN scheduled_tasks + 1 ELSE scheduled_tasks
             /\ db_ready' = (db_ready /\ ~o.db_moved)
             /\ interactions' = IF o.db_moved THEN <<>> ELSE interactions
             /\ user_preferences' = IF o.db_moved THEN {} ELSE user_preferences
             /\ IF o.response = None
                THEN /\ pc' = "Raised"
                     /\ returned' = Raised("AttributeError: 'NoneType' object has no attribute 'actions_taken'")
                ELSE /\ pc' = "Dispatching"
                     /\ returned' = returned
    /\ UNCHANGED <<user_input, context_summary, interpretation, final_response,
                   requests, now, store_call>>

Compile ==
    /\ pc = "Dispatching"
    /\ Len(responses) = Len(interpretation.agents_needed)
    /\ final_response' = compile_response(interpretation, responses, context_summary)
    /\ pc' = "Compiled"
    /\ UNCHANGED <<user_input, context_summary, interpretation, responses, invoked,
                   returned, interactions, db_ready, scheduled_tasks, requests,
                   now, user_preferences, store_call>>

\* the tags built from the agent list alone
ContextTagsAgentsOnly(interp) == Join(interp.agents_needed, ",")

\* f"{interpretation['primary_intent']},{','.join(interpretation['agents_needed'])}"
ContextTags(interp) ==
    interp.primary_intent \o "," \o Join(interp.agents_needed, ",")

\* context_tags, save_interaction and the return
Persist ==
    /\ pc = "Compiled"
    /\ SaveAndReturn(final_response, ContextTags(interpretation))
    /\ UNCHANGED <<user_input, context_summary, interpretation, responses, invoked,
                   final_response, db_ready, scheduled_tasks, requests,
                   now, user_preferences, store_call>>

Next ==
    \/ \E text \in Requests : Receive(text)
    \/ Classify
    \/ ShortCircuit
    \/ Dispatch
    \/ Compile
    \/ Persist

Spec == Init /\ [][Next]_vars

(***************************************************************************)
(* Properties of the process_request turn, checked under Spec.             *)
(***************************************************************************)
TurnOver == pc \in {"Persisted", "Raised"}

LastRow == interactions[Len(interactions)]

\* text cut at every occurrence of the one-character separator
RECURSIVE CutAt(_, _, _)
CutAt(text, sep, cur) ==
    IF Len(text) = 0 THEN <<cur>>
    ELSE IF SubSeq(text, 1, 1) = sep
    THEN <<cur>> \o CutAt(SubSeq(text, 2, Len(text)), sep, "")
    ELSE CutAt(SubSeq(text, 2, Len(text)), sep, cur \o SubSeq(text, 1, 1))

\* C1: whatever the input and the requests before it, process_request ends
\* by returning a reply: no exception leaves it.
C1_NoExceptionEscapes ==
    TurnOver => returned.status = "returned"

\* C2: every request reaches Persisted and adds exactly one row to the log:
\* after n requests the log holds n rows.
C2_OneRowPerRequest ==
    TurnOver => (pc = "Persisted" /\ Len(interactions) = requests)

\* C3: an agent call that raises becomes a failed response carrying the
\* fault text, the agents listed after it are still called, and the turn is
\* compiled and persisted.
C3_RaiseDoesNotStopTurn ==
    \A i \in 1..Len(invoked) :
        invoked[i].raised =>
            /\ ~responses[i].success
            /\ Contains(responses[i].message, FaultText)
            /\ TurnOver => /\ Len(invoked) = Len(interpretation.agents_needed)
                           /\ pc = "Persisted"

\* C4: for an intent other than unknown the agents of agents_needed are
\* called in listed order with the parameters of the interpretation, and
\* every call yields an AgentResponse with a success flag and a message,
\* never None.
C4_EveryCallYieldsResponse ==
    /\ Len(invoked) = Len(responses)
    /\ \A i \in 1..Len(invoked) :
           /\ invoked[i].agent_name = interpretation.agents_needed[i]
           /\ invoked[i].parameters = interpretation.parameters
           /\ responses[i] # None
           /\ {"success", "message"} \subseteq DOMAIN responses[i]
    /\ (pc \in {"Compiled", "Persisted"} /\ interpretation.primary_intent # "unknown") =>
           Len(invoked) = Len(interpretation.agents_needed)

\* C5: the row persisted for a request whose intent is not unknown has
\* context_tags equal to primary_intent, a comma, and the comma-joined
\* agents_needed of that request; cut at its commas it reads back as the
\* intent followed by the agents.
C5_TagsAreIntentThenAgents ==
    (pc = "Persisted" /\ interpretation.primary_intent # "unknown") =>
        /\ Len(interactions) > 0
        /\ LastRow.user_input = user_input
        /\ LastRow.context_tags =
               interpretation.primary_intent \o ","
                   \o Join(interpretation.agents_needed, ",")
        /\ CutAt(LastRow.context_tags, ",", "") =
               <<interpretation.primary_intent>> \o interpretation.agents_needed

C5_Witness ==
    /\ pc = "Persisted"
    /\ requests = 2
    /\ interpretation.primary_intent = "domain_management"
    /\ LastRow.context_tags = "domain_management,domain"
    /\ LastRow.id = 2

\* C6: from the point where the interpretation is unknown the turn takes
\* one step: no agent is called, the reply is the fixed clarification, and
\* the log grows by exactly one row, tagged "unknown_intent".
C6_UnknownShortCircuits ==
    [][(pc = "Classified" /\ interpretation.primary_intent = "unknown") =>
          /\ pc' = "Persisted"
          /\ invoked' = <<>>
          /\ responses' = <<>>
          /\ returned' = Returned(ClarifyMessage)
          /\ interactions' =
                 Append(interactions,
                        [id |-> Len(interactions) + 1,
                         timestamp |-> isoformat(now),
                         user_input |-> user_input,
                         agent_output |-> ClarifyMessage,
                         session_id |-> session_id,
                         context_tags |-> "unknown_intent"])]_vars

C6_Witness ==
    /\ pc = "Persisted"
    /\ interpretation.primary_intent = "unknown"
    /\ invoked = <<>>
    /\ Len(interactions) = 2
    /\ LastRow.context_tags = "unknown_intent"
    /\ returned = Returned(ClarifyMessage)

(***************************************************************************)
(* interpret_request alone, on every text of up to MaxWords words.         *)
(***************************************************************************)
InitClassify ==
    /\ pc = "Interpreting"
    /\ user_input \in Texts
    /\ TurnInit

Interpret ==
    /\ pc = "Interpreting"
    /\ interpretation' = interpret_request(user_input)
    /\ pc' = "Interpreted"
    /\ UNCHANGED <<user_input, context_summary, responses, invoked, final_response,
                   returned, interactions, db_ready, scheduled_tasks, requests,
                   now, user_preferences, store_call>>

NextClassify == Interpret

SpecClassify == InitClassify /\ [][NextClassify]_vars

(***************************************************************************)
(* Properties of interpret_request, checked under SpecClassify.            *)
(***************************************************************************)
\* the six categories in the order the chain tests them
CategoryWords ==
    <<FileWords, ResearchWords, DomainWords, PhoneWords, AutomationWords, MemoryWords>>
CategoryIntent ==
    <<"file_management", "research", "domain_management", "phone_management",
      "automation", "memory_recall">>
CategoryAgent == <<"file", "research", "domain", "phone", "automation", "memory">>
CategoryActions ==
    <<{"find", "organize", "remove_duplicates"}, {}, {"check_status", "fix_dns"},
      {"sort_photos", "clean_contacts"},
      {"backup", "organize_desktop", "schedule_task", "create_tool"}, {}>>

\* the categories one of whose trigger words occurs in a lower-cased text
CategoriesIn(lower) ==
    {k \in 1..Len(CategoryWords) : AnyIn(CategoryWords[k], lower)}

FirstCategoryIn(lower) ==
    CHOOSE k \in CategoriesIn(lower) : \A j \in CategoriesIn(lower) : k <= j

\* C7: an input whose lower-cased text holds no trigger word of any of the
\* six categories is interpreted as primary_intent "unknown" with no agent
\* and confidence 0.0; an intent other than "unknown" comes only with a
\* trigger word in the text.
C7_NoTriggerIsUnknown ==
    pc = "Interpreted" =>
        LET present == CategoriesIn(Lower(user_input))
        IN  /\ present = {} =>
                   /\ interpretation.primary_intent = "unknown"
                   /\ interpretation.agents_needed = <<>>
                   /\ interpretation.confidence = "0.0"
            /\ interpretation.primary_intent # "unknown" => present # {}

C7_Witness ==
    /\ pc = "Interpreted"
    /\ Len(Split(user_input)) >= 3
    /\ CategoriesIn(Lower(user_input)) = {}
    /\ interpretation = UnknownInterpretation

\* C8: when trigger words of two or more categories occur in the input, the
\* intent, the confidence and the action parameter are those of the category
\* tested first, and the agent list is that category's agent alone, unless
\* the text holds "organize my" and the override installed one of its two
\* lists.
C8_FirstMatchWins ==
    pc = "Interpreted" =>
        LET lower == Lower(user_input)
            present == CategoriesIn(lower)
            k == CHOOSE c \in present : \A j \in present : c <= j
        IN  Cardinality(present) >= 2 =>
                /\ interpretation.primary_intent = CategoryIntent[k]
                /\ interpretation.confidence = (IF k = 6 THEN "0.7" ELSE "0.8")
                /\ \A x \in DOMAIN interpretation.parameters :
                       interpretation.parameters[x] \in CategoryActions[k]
                /\ \/ interpretation.agents_needed = <<CategoryAgent[k]>>
                   \/ /\ Contains(lower, "organize my")
                      /\ interpretation.agents_needed \in
                             {<<"phone", "memory">>, <<"file", "automation", "memory">>}

C8_Witness ==
    /\ pc = "Interpreted"
    /\ CategoriesIn(Lower(user_input)) = {2, 3, 6}
    /\ interpretation.primary_intent = "research"
    /\ interpretation.agents_needed = <<"research">>

\* C9: an input that holds "organize my" and "phone" gets the agent list
\* <<phone, memory>> exactly, also when it mentions "computer" or "files".
C9_OrganizeMyPhone ==
    pc = "Interpreted" =>
        LET lower == Lower(user_input)
        IN  (Contains(lower, "organize my") /\ Contains(lower, "phone")) =>
                interpretation.agents_needed = <<"phone", "memory">>

C9_Witness ==
    /\ pc = "Interpreted"
    /\ Contains(user_input, "Organize My")
    /\ Contains(user_input, "phone")
    /\ Contains(user_input, "files") \/ Contains(user_input, "computer")
    /\ interpretation.agents_needed = <<"phone", "memory">>

\* C10: the override sets agents_needed to its own list, whatever the chain
\* had put there, and leaves primary_intent, parameters and confidence as
\* the chain set them; with "organize my" but none of "phone", "computer",
\* "files" in the text, and without "organize my", agents_needed is the
\* chain's.
C10_OverrideReplaces ==
    pc = "Interpreted" =>
        LET lower == Lower(user_input)
            chain == Cascade(lower)
            organize_my == Contains(lower, "organize my")
            phone == organize_my /\ Contains(lower, "phone")
            files == /\ organize_my
                     /\ ~Contains(lower, "phone")
                     /\ Contains(lower, "computer") \/ Contains(lower, "files")
        IN  /\ interpretation.primary_intent = chain.primary_intent
            /\ interpretation.parameters = chain.parameters
            /\ interpretation.confidence = chain.confidence
            /\ phone => interpretation.agents_needed = <<"phone", "memory">>
            /\ files => interpretation.agents_needed = <<"file", "automation", "memory">>
            /\ (~phone /\ ~files) => interpretation.agents_needed = chain.agents_needed

\* the chain's agent, file, is dropped by the phone branch of the override
C10_Witness ==
    /\ pc = "Interpreted"
    /\ interpretation.agents_needed = <<"phone", "memory">>
    /\ interpretation.parameters = ActionParam("find")
    /\ Cascade(Lower(user_input)).agents_needed = <<"file">>

\* with "organize my" but no "phone", "computer" or "files", the chain's list stays
C10_WitnessUnchanged ==
    /\ pc = "Interpreted"
    /\ Contains(user_input, "organize my")
    /\ interpretation.agents_needed = <<"file">>

(***************************************************************************)
(* MemoryAgent alone: save_interaction and retrieve_relevant called on a   *)
(* store of up to MaxRows interactions, under a wall clock.                *)
(***************************************************************************)
\* the most interactions saved
MaxRows == 2
\* the greatest clock reading
MaxTime == 1
\* the greatest limit asked of retrieve_relevant
MaxLimit == 2

\* the (user_input, agent_output) pairs handed to save_interaction
SavedTexts ==
    {[user_input |-> "Alpha test", agent_output |-> "done"],
     [user_input |-> "beta only", agent_output |-> "done"],
     [user_input |-> "a-c beta", agent_output |-> "ALPHA"]}

\* the queries handed to retrieve_relevant
Queries == {"", " ", "alpha beta", "Alpha", "a_c", "zzz"}

InitStore ==
    /\ pc = "Store"
    /\ user_input = ""
    /\ TurnInit

turn_state == <<pc, user_input, context_summary, interpretation, responses,
                invoked, final_response, returned, db_ready, scheduled_tasks,
                requests>>

\* datetime.now() is the machine's local wall clock: between two calls it
\* may stand still, move on, or have been set back (a clock correction, the
\* end of daylight saving time)
SetClock(t) ==
    /\ t # now
    /\ now' = t
    /\ UNCHANGED <<turn_state, interactions, user_preferences, store_call>>

SaveInteraction(text) ==
    /\ Len(interactions) < MaxRows
    /\ interactions' = save_interaction(interactions, isoformat(now),
                                        text.user_input, text.agent_output,
                                        "default", "")
    /\ args' = [op |-> "save_interaction", user_input |-> text.user_input,
                agent_output |-> text.agent_output]
    /\ result' = None
    /\ UNCHANGED <<turn_state, now, user_preferences, set_calls>>

RetrieveRelevant(query, limit) ==
    /\ \E r \in retrieve_relevant(query, limit, interactions) : result' = r
    /\ args' = [op |-> "retrieve_relevant", query |-> query, limit |-> limit]
    /\ UNCHANGED <<turn_state, now, interactions, user_preferences, set_calls>>

NextStore ==
    \/ \E t \in 0..MaxTime : SetClock(t)
    \/ \E text \in SavedTexts : SaveInteraction(text)
    \/ \E query \in Queries, limit \in 0..MaxLimit : RetrieveRelevant(query, limit)

SpecStore == InitStore /\ [][NextStore]_vars

(***************************************************************************)
(* Properties of retrieve_relevant, checked under SpecStore.               *)
(***************************************************************************)
Retrieved == args.op = "retrieve_relevant"

SearchTerms == Split(Lower(args.query))

\* the term occurs, letter case apart, in one of the two stored fields
Occurs(term, row) ==
    \/ Contains(Lower(row.user_input), term)
    \/ Contains(Lower(row.agent_output), term)

\* the k most recently saved rows, the last saved first
MostRecent(k) ==
    [i \in 1..k |-> RowDict(interactions[Len(interactions) - i + 1])]

\* C11: a query without any term (empty, or only white space) is answered
\* with the min(limit, number of rows) most recently saved interactions, the
\* last saved first.
C11_EmptyQueryMostRecent ==
    (Retrieved /\ SearchTerms = <<>>) =>
        LET n == Len(interactions)
        IN  result = MostRecent(IF args.limit < n THEN args.limit ELSE n)

\* C12: with at least one term, every interaction returned holds every term,
\* letter case apart, in its user_input or its agent_output, and the answer
\* is the empty list when no saved interaction holds them all.
C12_EveryTermOccurs ==
    (Retrieved /\ SearchTerms # <<>>) =>
        /\ \A i \in 1..Len(result) : \A t \in 1..Len(SearchTerms) :
              Occurs(SearchTerms[t], result[i])
        /\ (\A r \in 1..Len(interactions) : \E t \in 1..Len(SearchTerms) :
               ~Occurs(SearchTerms[t], interactions[r]))
           => result = <<>>

HasWildcard(term) == Contains(term, "%") \/ Contains(term, "_")

\* C13: a term that holds % or _ is looked for as it is written: an
\* interaction is returned for it only if these very characters occur in
\* one of its two fields.
C13_WildcardsLiteral ==
    Retrieved =>
        \A t \in 1..Len(SearchTerms) :
            HasWildcard(SearchTerms[t]) =>
                \A i \in 1..Len(result) : Occurs(SearchTerms[t], result[i])

\* C14: an answer holds at most limit rows, no row before one of a greater
\* timestamp, and the saved rows leave one answer only: rows of one
\* timestamp come in one fixed order.
C14_OrderDetermined ==
    Retrieved =>
        /\ Len(result) <= args.limit
        /\ \A i, j \in 1..Len(result) :
              i < j => ~TextLess(result[i].timestamp, result[j].timestamp)
        /\ Cardinality(retrieve_relevant(args.query, args.limit, interactions)) = 1

(***************************************************************************)
(* MemoryAgent alone: set_preference and get_preference.                   *)
(***************************************************************************)
\* the most set_preference calls made
MaxSets == 3

\* the keys and the values handed to set_preference and get_preference
PreferenceKeys == {"theme", "Theme"}
PreferenceValues == {"v", "v2", ""}

SetPreference(key, value) ==
    /\ Len(set_calls) < MaxSets
    /\ user_preferences' = set_preference(user_preferences, key, value, isoformat(now))
    /\ set_calls' = Append(set_calls, [key |-> key, value |-> value])
    /\ args' = [op |-> "set_preference", key |-> key, value |-> value]
    /\ result' = None
    /\ UNCHANGED <<turn_state, now, interactions>>

GetPreference(key) ==
    /\ \E r \in get_preference(user_preferences, key) : result' = r
    /\ args' = [op |-> "get_preference", key |-> key]
    /\ UNCHANGED <<turn_state, now, interactions, user_preferences, set_calls>>

NextPrefs ==
    \/ \E t \in 0..MaxTime : SetClock(t)
    \/ \E key \in PreferenceKeys, value \in PreferenceValues : SetPreference(key, value)
    \/ \E key \in PreferenceKeys : GetPreference(key)

SpecPrefs == InitStore /\ [][NextPrefs]_vars

(***************************************************************************)
(* Properties of the preferences, checked under SpecPrefs.                 *)
(***************************************************************************)
\* the value of the last set_preference call made for the key, None when
\* none was made
LastSet(key) ==
    LET made == {i \in 1..Len(set_calls) : set_calls[i].key = key}
    IN  IF made = {} THEN None
        ELSE Str(set_calls[CHOOSE i \in made : \A j \in made : j <= i].value)

\* C15: after any set_preference calls, get_preference(k) gives the value of
\* the last call made for k (None when there was none), whatever was written
\* to other keys since, and the table holds at most one row for each key.
C15_GetReturnsLastSet ==
    /\ \A key \in PreferenceKeys :
          /\ Cardinality({r \in user_preferences : r.key = key}) <= 1
          /\ get_preference(user_preferences, key) = {LastSet(key)}
    /\ args.op = "get_preference" => result = LastSet(args.key)

\* "theme" was set twice, then another key was written, then "theme" is read
C15_Witness ==
    /\ set_calls = <<[key |-> "theme", value |-> "v"],
                     [key |-> "theme", value |-> "v2"],
                     [key |-> "Theme", value |-> ""]>>
    /\ args = [op |-> "get_preference", key |-> "theme"]
    /\ result = Str("v2")
    /\ Cardinality(user_preferences) = 2

(***************************************************************************)
(* _compile_response alone, on lists of up to MaxResponses responses that  *)
(* hold up to MaxActions actions each.                                     *)
(***************************************************************************)
MaxResponses == 2
MaxActions == 5

\* actions_taken entries, all different
ActionNames ==
    [i \in 1..MaxActions |-> "step " \o ToString(i)]

\* the responses handed to _compile_response
SampleResponses ==
    {AgentResponse(success,
                   (IF success THEN "worked " ELSE "broke ") \o ToString(n),
                   IF success THEN <<Scalar("count", "1")>> ELSE <<>>,
                   Prefix(ActionNames, n)) :
        success \in BOOLEAN, n \in 0..MaxActions}

\* requests of each intent that has a tip, and of two that have none
CompiledRequests ==
    {"Find report.txt", "fix dns example.com.", "sort photos", "research dns",
     "recall hello"}

InitCompile ==
    /\ pc = "Compiling"
    /\ user_input = ""
    /\ context_summary \in {"", "Found 1 relevant past interactions. "}
    /\ interpretation \in {interpret_request(text) : text \in CompiledRequests}
    /\ responses \in UNION {[1..n -> SampleResponses] : n \in 1..MaxResponses}
    /\ invoked = <<>>
    /\ final_response = ""
    /\ returned = Pending
    /\ interactions = <<>>
    /\ db_ready = TRUE
    /\ scheduled_tasks = 0
    /\ requests = 0
    /\ now = 0
    /\ user_preferences = {}
    /\ set_calls = <<>>
    /\ args = NoArgs
    /\ result = None

CompileResponse ==
    /\ pc = "Compiling"
    /\ final_response' = compile_response(interpretation, responses, context_summary)
    /\ pc' = "Compiled"
    /\ UNCHANGED <<user_input, context_summary, interpretation, responses, invoked,
                   returned, interactions, db_ready, scheduled_tasks, requests,
                   now, user_preferences, store_call>>

NextCompile == CompileResponse

SpecCompile == InitCompile /\ [][NextCompile]_vars

(***************************************************************************)
(* Properties of the compiled reply, checked under SpecCompile.            *)
(***************************************************************************)
\* the lines of a text
SplitLines(text) ==
    LET breaks == {i \in 1..Len(text) : SubSeq(text, i, i) = "\n"}
        Break(j) == CHOOSE i \in breaks : Cardinality({m \in breaks : m < i}) = j - 1
        k == Cardinality(breaks)
    IN  [j \in 1..(k + 1) |->
            SubSeq(text, IF j = 1 THEN 1 ELSE Break(j - 1) + 1,
                         IF j = k + 1 THEN Len(text) ELSE Break(j) - 1)]

\* the lines of the reply that show an action
BulletLines(reply) ==
    LET IsBullet(line) == StartsWith(line, "  * ")
    IN  SelectSeq(SplitLines(reply), IsBullet)

\* for each successful response in turn, its first three actions (all of
\* them when it has fewer), each as a bullet
RECURSIVE FirstThreeOfEach(_)
FirstThreeOfEach(rs) ==
    IF rs = <<>> THEN <<>>
    ELSE LET r == Head(rs)
             n == Len(r.actions_taken)
             shown == IF ~r.success THEN 0 ELSE IF n < 3 THEN n ELSE 3
         IN  [i \in 1..shown |-> "  * " \o r.actions_taken[i]]
                 \o FirstThreeOfEach(Tail(rs))

\* C17: the reply shows, for every successful response, exactly the first
\* min(3, n) of its n actions, in their order, and no later one.
C17_FirstThreeActionsShown ==
    pc = "Compiled" => BulletLines(final_response) = FirstThreeOfEach(responses)

\* a successful response with five actions was compiled: three bullets
C17_Witness ==
    /\ pc = "Compiled"
    /\ Len(responses) = 1
    /\ responses[1].success
    /\ Len(responses[1].actions_taken) = 5
    /\ BulletLines(final_response) = <<"  * step 1", "  * step 2", "  * step 3">>

(***************************************************************************)
(* The interaction log across process_request turns, checked under Spec.   *)
(***************************************************************************)
\* C16: the log only grows: every step keeps each interaction persisted
\* before it, with its timestamp, user_input, agent_output, session_id and
\* context_tags, at its place.
C16_AppendOnly ==
    [][/\ Len(interactions') >= Len(interactions)
       /\ \A i \in 1..Len(interactions) : interactions'[i] = interactions[i]]_vars

\* C20: every persisted interaction has a user_input that is not empty.
C20_UserInputNonEmpty ==
    \A i \in 1..Len(interactions) : interactions[i].user_input # ""

(***************************************************************************)
(* process_request with a store that may be out of reach: any statement    *)
(* sent to memory.db may raise sqlite3.OperationalError.                   *)
(***************************************************************************)
StoreFault == Raised("OperationalError: " \o FaultText)

\* retrieve_relevant raising at the entry of the turn
ReceiveStoreFault(text) ==
    /\ pc \in {"Idle", "Persisted", "Raised"}
    /\ requests < MaxRequests
    /\ requests' = requests + 1
    /\ user_input' = text
    /\ interpretation' = UnknownInterpretation
    /\ responses' = <<>>
    /\ invoked' = <<>>
    /\ final_response' = ""
    /\ context_summary' = ""
    /\ returned' = StoreFault
    /\ pc' = "Raised"
    /\ now' = now + 1
    /\ UNCHANGED <<interactions, db_ready, scheduled_tasks, user_preferences,
                   store_call>>

\* save_interaction raising in the unknown branch
ShortCircuitStoreFault ==
    /\ pc = "Classified"
    /\ interpretation.primary_intent = "unknown"
    /\ final_response' = ClarifyMessage
    /\ returned' = StoreFault
    /\ pc' = "Raised"
    /\ UNCHANGED <<user_input, context_summary, interpretation, responses, invoked,
                   interactions, db_ready, scheduled_tasks, requests,
                   now, user_preferences, store_call>>

\* save_interaction raising after the reply was compiled
PersistStoreFault ==
    /\ pc = "Compiled"
    /\ returned' = StoreFault
    /\ pc' = "Raised"
    /\ UNCHANGED <<user_input, context_summary, interpretation, responses, invoked,
                   final_response, interactions, db_ready, scheduled_tasks, requests,
                   now, user_preferences, store_call>>

NextFault ==
    \/ Next
    \/ \E text \in Requests : ReceiveStoreFault(text)
    \/ ShortCircuitStoreFault
    \/ PersistStoreFault

SpecFault == Init /\ [][NextFault]_vars

(***************************************************************************)
(* Properties of a turn on a failing store, checked under SpecFault.       *)
(***************************************************************************)
\* C18: whatever happens to the write, the step that ends a turn after its
\* reply was compiled returns that reply to the caller, and makes the write
\* at most once.
C18_ReplyReturnedDespiteWriteFault ==
    [][(pc = "Compiled" /\ pc' # "Compiled") =>
          /\ returned' = Returned(final_response)
          /\ Len(interactions') <= Len(interactions) + 1]_vars

\* C19: whatever happens to the read, the step that begins a turn leads to
\* classification, without a context note when the read failed.
C19_ReadFaultDegrades ==
    [][(requests' = requests + 1) =>
          /\ pc' = "Received"
          /\ returned' = Pending]_vars

(***************************************************************************)
(* The layout of the compiled reply, checked under SpecCompile.            *)
(***************************************************************************)
\* the members of a set of positions, in ascending order
InOrder(positions) ==
    [j \in 1..Cardinality(positions) |->
        CHOOSE i \in positions : Cardinality({m \in positions : m < i}) = j - 1]

Succeeded == {i \in 1..Len(responses) : responses[i].success}
Failed == {i \in 1..Len(responses) : ~responses[i].success}

\* what one successful response shows: its message, its data, its actions
ShownBlock(r) ==
    <<"[ok] " \o r.message>> \o DataLines(r.data) \o FirstThreeOfEach(<<r>>)

RECURSIVE ShownBlocks(_)
ShownBlocks(order) ==
    IF order = <<>> THEN <<>>
    ELSE ShownBlock(responses[Head(order)]) \o ShownBlocks(Tail(order))

TipOf ==
    [file_management |->
        "\nTip: I can also help organize files by date, find duplicates, or backup important documents.",
     domain_management |->
        "\nTip: I can monitor your domains regularly and alert you to any issues.",
     phone_management |->
        "\nTip: I can also help with backing up your phone data to the cloud."]

ExpectedParts ==
    (IF context_summary # "" THEN <<context_summary>> ELSE <<>>)
    \o (IF Succeeded # {}
        THEN <<"Here's what I accomplished:">> \o ShownBlocks(InOrder(Succeeded))
        ELSE <<>>)
    \o (IF Failed # {}
        THEN <<"\nSome issues encountered:">>
             \o [j \in 1..Cardinality(Failed) |->
                    "[failed] " \o responses[InOrder(Failed)[j]].message]
        ELSE <<>>)
    \o (IF interpretation.primary_intent \in DOMAIN TipOf
        THEN <<TipOf[interpretation.primary_intent]>> ELSE <<>>)

HasLine(text, line) ==
    LET lines == SplitLines(text)
    IN  \E i \in DOMAIN lines : lines[i] = line

\* C21: the reply is, joined by newlines and in this order, the context note
\* when there is one, the success header and the blocks of the successful
\* responses in call order, the failure header and the messages of the
\* failed ones in call order, then the tip of a file, domain or phone
\* intent; a header is there exactly when its part is not empty.
C21_ReplyLayout ==
    pc = "Compiled" =>
        /\ final_response = Join(ExpectedParts, "\n")
        /\ HasLine(final_response, "Here's what I accomplished:") <=> Succeeded # {}
        /\ HasLine(final_response, "Some issues encountered:") <=> Failed # {}

\* a failed call followed by a successful one, with a context note and the
\* tip of the domain intent: the success part still comes first
C21_Witness ==
    /\ pc = "Compiled"
    /\ context_summary # ""
    /\ interpretation.primary_intent = "domain_management"
    /\ Len(responses) = 2
    /\ ~responses[1].success
    /\ responses[2].success
    /\ SplitLines(final_response)[1] = context_summary
    /\ SplitLines(final_response)[2] = "Here's what I accomplished:"
    /\ HasLine(final_response, "[failed] " \o responses[1].message)

(***************************************************************************)
(* One process_request turn on a store that earlier sessions have filled:  *)
(* up to MaxSeeded interactions, with or without a preference.             *)
(***************************************************************************)
MaxSeeded == 4

\* the log after n calls save_interaction("recall hello there", "noted")
RECURSIVE SeededLog(_)
SeededLog(n) ==
    IF n = 0 THEN <<>>
    ELSE save_interaction(SeededLog(n - 1), isoformat(0), "recall hello there",
                          "noted", "default", "")

SeededPreferences ==
    {{}, set_preference({}, "theme", "v", isoformat(0))}

InitSeeded ==
    /\ pc = "Idle"
    /\ user_input = ""
    /\ context_summary = ""
    /\ interpretation = UnknownInterpretation
    /\ responses = <<>>
    /\ invoked = <<>>
    /\ final_response = ""
    /\ returned = Pending
    /\ interactions \in {SeededLog(n) : n \in 0..MaxSeeded}
    /\ db_ready = TRUE
    /\ scheduled_tasks = 0
    /\ requests = MaxRequests - 1
    /\ now = 0
    /\ user_preferences \in SeededPreferences
    /\ set_calls = <<>>
    /\ args = NoArgs
    /\ result = None

SpecSeeded == InitSeeded /\ [][Next]_vars

(***************************************************************************)
(* Properties of a turn on a filled store, checked under SpecSeeded.       *)
(***************************************************************************)
Interpreted == pc \in {"Classified", "Dispatching", "Compiled", "Persisted"}

\* the agent methods the dispatch of this request calls on an empty store
MethodsOnEmptyStore(agent_name) ==
    {b.method : b \in TryBody(agent_name, interpretation.parameters, user_input,
                              <<>>, 0, TRUE)}

ContextNotes ==
    {""} \cup {"Found " \o ToString(k) \o " relevant past interactions. " : k \in 1..3}

\* C22: whatever the store holds, the interpretation is that of the input
\* alone and the calls made are those the same input makes on an empty
\* store; what was retrieved shows only as the context note, with a count
\* of at most 3, put before the reply.
C22_MemoryDoesNotSteer ==
    /\ Interpreted => interpretation = interpret_request(user_input)
    /\ \A i \in 1..Len(invoked) :
          /\ invoked[i].agent_name = interpret_request(user_input).agents_needed[i]
          /\ invoked[i].parameters = interpret_request(user_input).parameters
          /\ invoked[i].method \in MethodsOnEmptyStore(invoked[i].agent_name)
    /\ context_summary \in ContextNotes
    /\ pc = "Compiled" =>
          final_response =
              (IF context_summary = "" THEN "" ELSE context_summary \o "\n")
                  \o compile_response(interpretation, responses, "")

\* a store of four interactions and a preference: the turn on
\* "recall hello" notes three of them and calls the memory agent once
C22_Witness ==
    /\ pc = "Persisted"
    /\ user_input = "recall hello"
    /\ user_preferences # {}
    /\ Len(interactions) = 5
    /\ context_summary = "Found 3 relevant past interactions. "
    /\ Len(invoked) = 1
    /\ invoked[1].agent_name = "memory"

(***************************************************************************)
(* The "organize my" override and the intent, checked under SpecClassify.  *)
(***************************************************************************)
OverrideLists == {<<"phone", "memory">>, <<"file", "automation", "memory">>}

\* C23: when the override has changed agents_needed, the intent is
\* file_management and the action is "find" or "organize"; an unknown intent
\* has no agent; the tags built from an override list begin with
\* file_management.
C23_OverrideImpliesFileIntent ==
    pc = "Interpreted" =>
        LET lower == Lower(user_input)
            taken == /\ Contains(lower, "organize my")
                     /\ \/ Contains(lower, "phone")
                        \/ Contains(lower, "computer")
                        \/ Contains(lower, "files")
        IN  /\ (taken \/ interpretation.agents_needed # Cascade(lower).agents_needed) =>
                  /\ interpretation.primary_intent = "file_management"
                  /\ "action" \in DOMAIN interpretation.parameters
                  /\ interpretation.parameters.action \in {"find", "organize"}
            /\ interpretation.primary_intent = "unknown" =>
                  interpretation.agents_needed = <<>>
            /\ interpretation.agents_needed \in OverrideLists =>
                  StartsWith(ContextTags(interpretation), "file_management,")

\* "duplicate" in the text as well: the override's list, the file intent and
\* the action organize
C23_Witness ==
    /\ pc = "Interpreted"
    /\ user_input = "duplicate organize my files"
    /\ interpretation.agents_needed = <<"file", "automation", "memory">>
    /\ interpretation.primary_intent = "file_management"
    /\ interpretation.parameters.action = "organize"
    /\ ContextTags(interpretation) = "file_management,file,automation,memory"

(***************************************************************************)
(* The order of the store accesses of a turn, checked under Spec.          *)
(***************************************************************************)
InTurn == pc \in {"Received", "Classified", "Dispatching", "Compiled"}

\* the rows written during the current turn
ThisTurnRows ==
    {i \in 1..Len(interactions) : interactions[i].timestamp = isoformat(now)}

\* the log as the turns completed earlier left it
PriorRows ==
    IF pc = "Persisted" THEN Prefix(interactions, Len(interactions) - 1)
    ELSE interactions

NoteOf(n) ==
    IF n > 0 THEN "Found " \o ToString(n) \o " relevant past interactions. " ELSE ""

MemoryQuery == Strip(Replace(Replace(user_input, "remember", ""), "recall", ""))

ReadsSeeOnlyEarlierTurns ==
    /\ InTurn => ThisTurnRows = {}
    /\ pc = "Persisted" => ThisTurnRows = {Len(interactions)}
    /\ (pc \in {"Received", "Persisted"} /\ db_ready) =>
          context_summary = NoteOf(RetrievedCount(user_input, 3, PriorRows))
    /\ ((InTurn \/ pc = "Persisted") /\ db_ready) =>
          \A i \in 1..Len(invoked) :
                (invoked[i].agent_name = "memory" /\ ~invoked[i].raised) =>
                    responses[i].message =
                        "Found " \o ToString(RetrievedCount(MemoryQuery, 5, PriorRows))
                            \o " relevant past interactions"

WriteIsLast ==
    /\ Len(interactions') > Len(interactions) =>
          /\ pc' = "Persisted"
          /\ Len(interactions') = Len(interactions) + 1
    /\ pc = "Persisted" =>
          /\ requests' = requests + 1
          /\ interactions' = interactions

\* C24: during a turn the log holds no row of that turn, so the context
\* count and the memory agent's count are those of the turns completed
\* earlier; the one write of the turn is its last step, and what follows it
\* is the next turn.
C24_ReadsBeforeWrite ==
    []ReadsSeeOnlyEarlierTurns /\ [][WriteIsLast]_vars

\* "recall hello" asked a second time: both counts are 1, the first turn's
\* row, though the second turn's own row would match as well
C24_Witness ==
    /\ pc = "Persisted"
    /\ user_input = "recall hello"
    /\ Len(interactions) = 2
    /\ interactions[1].user_input = "recall hello"
    /\ context_summary = NoteOf(1)
    /\ responses[1].message = "Found 1 relevant past interactions"
    /\ RetrievedCount(user_input, 3, interactions) = 2

====
